---- MODULE Spec2Model ----
(***************************************************************************)
(* Model of the paper-search pipeline of AI_Research_Template:             *)
(*   _backend/scripts/search_papers.py    (adapters, BibTeX, main)         *)
(*   _backend/scripts/theory_explorer.py  (document renderer, main)        *)
(*                                                                         *)
(* Text is a sequence of one-character strings.  A Python value that may   *)
(* be None is a sequence of length 0 (None) or 1 (the value).  A Python    *)
(* dict is a record; a missing key is a name outside its DOMAIN.           *)
(***************************************************************************)
EXTENDS Integers, Sequences, FiniteSets, TLC

VARIABLES
    prog,               \* which entry point runs
    pc,                 \* position in that entry point
    api_key,            \* OPENROUTER_API_KEY is set
    args,               \* the command line / call arguments
    arxiv_resp,         \* what the arXiv endpoint answered
    ss_resp,            \* what the Semantic Scholar endpoint answered
    px_resp,            \* what the OpenRouter endpoint answered
    arxiv_papers,       \* search_arxiv's return value
    ss_papers,          \* search_semantic_scholar's return value
    all_papers,         \* main's aggregated list
    perplexity_result,  \* search_perplexity's return value
    requests,           \* endpoints requested so far, in order
    stderr,             \* diagnostics printed to stderr, in order
    raised,             \* the exception that left the entry point, or NoExc
    tex_file,           \* theoretical_analysis.tex, None until written
    bib_file            \* the BibTeX file, None until written

vars == <<prog, pc, api_key, args, arxiv_resp, ss_resp, px_resp, arxiv_papers,
          ss_papers, all_papers, perplexity_result, requests, stderr, raised,
          tex_file, bib_file>>

----------------------------------------------------------------------------
(* Python values *)

None == <<>>
Some(v) == <<v>>
IsNone(o) == Len(o) = 0
Val(o) == o[1]

EmptyDict == [k \in {} |-> k]

Get(d, k, default) == IF k \in DOMAIN d THEN d[k] ELSE default

NoExc == "NoExc"

Ok(v) == [exc |-> NoExc, value |-> v]
Raise(e) == [exc |-> e, value |-> None]

Min(a, b) == IF a < b THEN a ELSE b

\* s[:n]
Take(s, n) == SubSeq(s, 1, Min(n, Len(s)))

\* s[-1] of a non-empty sequence
Last(s) == s[Len(s)]

WS == {" ", "\n", "\t"}

RECURSIVE Replace(_, _, _)
\* str.replace(old, new) for a one-character old
Replace(s, old, new) ==
    IF s = <<>> THEN <<>>
    ELSE (IF Head(s) = old THEN new ELSE <<Head(s)>>) \o Replace(Tail(s), old, new)

RECURSIVE LStrip(_)
LStrip(s) == IF s # <<>> /\ Head(s) \in WS THEN LStrip(Tail(s)) ELSE s

RECURSIVE RStrip(_)
RStrip(s) ==
    IF s # <<>> /\ Last(s) \in WS THEN RStrip(SubSeq(s, 1, Len(s) - 1)) ELSE s

\* str.strip()
Strip(s) == RStrip(LStrip(s))

RECURSIVE SplitFrom(_, _)
\* the tokens of s, cur being the token under construction
SplitFrom(s, cur) ==
    IF s = <<>> THEN (IF cur = <<>> THEN <<>> ELSE <<cur>>)
    ELSE IF Head(s) \in WS
         THEN (IF cur = <<>> THEN <<>> ELSE <<cur>>) \o SplitFrom(Tail(s), <<>>)
         ELSE SplitFrom(Tail(s), Append(cur, Head(s)))

\* str.split(): the maximal runs of non-whitespace
Split(s) == SplitFrom(s, <<>>)

RECURSIVE SplitOn(_, _, _)
SplitOn(s, sep, cur) ==
    IF s = <<>> THEN <<cur>>
    ELSE IF Head(s) = sep THEN <<cur>> \o SplitOn(Tail(s), sep, <<>>)
         ELSE SplitOn(Tail(s), sep, Append(cur, Head(s)))

\* str.split(sep) for a one-character sep: empty tokens are kept
SplitSep(s, sep) == SplitOn(s, sep, <<>>)

LowerChar(c) ==
    CASE c = "A" -> "a"
      [] c = "K" -> "k"
      [] c = "L" -> "l"
      [] c = "S" -> "s"
      [] c = "T" -> "t"
      [] OTHER -> c

\* str.lower()
Lower(s) == [i \in 1..Len(s) |-> LowerChar(s[i])]

RECURSIVE Join(_, _)
\* sep.join(parts)
Join(parts, sep) ==
    IF parts = <<>> THEN <<>>
    ELSE IF Len(parts) = 1 THEN Head(parts)
    ELSE Head(parts) \o sep \o Join(Tail(parts), sep)

DigitChar(d) == CASE d = 0 -> "0" [] d = 1 -> "1" [] d = 2 -> "2" [] d = 3 -> "3"
                  [] d = 4 -> "4" [] d = 5 -> "5" [] d = 6 -> "6" [] d = 7 -> "7"
                  [] d = 8 -> "8" [] d = 9 -> "9"

RECURSIVE IntStr(_)
\* str(n) for n >= 0
IntStr(n) == IF n < 10 THEN <<DigitChar(n)>> ELSE Append(IntStr(n \div 10), DigitChar(n % 10))

----------------------------------------------------------------------------
(* search_papers.py: the adapters *)

ArxivAbstractLimit == 500
ArxivAuthorLimit == 3
CategoryLimit == 3
DateLen == 10
SSAbstractLimit == 500
SSAuthorLimit == 3

\* except Exception: every failure of the model is an Exception subclass
ExceptException(e) == TRUE

\* element.text of entry.find(tag): AttributeError when find() gave None
ElementText(found) == IF IsNone(found) THEN Raise("AttributeError") ELSE Ok(Val(found))

\* lines 72-74: the author names of one entry
RECURSIVE ArxivAuthors(_)
ArxivAuthors(elems) ==
    IF elems = <<>> THEN Ok(<<>>)
    ELSE LET name == ElementText(Head(elems).name)
             rest == ArxivAuthors(Tail(elems))
         IN  IF name.exc # NoExc THEN name
             ELSE IF rest.exc # NoExc THEN rest
             ELSE Ok(<<name.value>> \o rest.value)

\* lines 68-96: the body of the loop over the feed's entries
ArxivEntry(entry) ==
    LET title_text == ElementText(entry.title)
        summary_text == ElementText(entry.summary)
        authors == ArxivAuthors(entry.authors)
        id_text == ElementText(entry.id)
        published_text == ElementText(entry.published)
    IN  IF title_text.exc # NoExc THEN title_text
        ELSE IF IsNone(title_text.value) THEN Raise("AttributeError")
        ELSE IF summary_text.exc # NoExc THEN summary_text
        ELSE IF IsNone(summary_text.value) THEN Raise("AttributeError")
        ELSE IF authors.exc # NoExc THEN authors
        ELSE IF id_text.exc # NoExc THEN id_text
        ELSE IF IsNone(id_text.value) THEN Raise("AttributeError")
        ELSE IF published_text.exc # NoExc THEN published_text
        ELSE IF IsNone(published_text.value) THEN Raise("TypeError")
        ELSE LET arxiv_id == Last(SplitSep(Val(id_text.value), "/"))
             IN  Ok([title |-> Some(Replace(Strip(Val(title_text.value)), "\n", <<" ">>)),
                     authors |-> Take(authors.value, ArxivAuthorLimit),
                     abstract |-> Take(Strip(Val(summary_text.value)), ArxivAbstractLimit),
                     arxiv_id |-> arxiv_id,
                     url |-> <<"https://arxiv.org/abs/">> \o arxiv_id,
                     pdf |-> <<"https://arxiv.org/pdf/">> \o arxiv_id,
                     categories |-> Take(entry.categories, CategoryLimit),
                     date |-> Take(Val(published_text.value), DateLen),
                     source |-> "arXiv"])

\* lines 66-98: the loop; an exception in one entry leaves the loop
RECURSIVE ArxivEntries(_)
ArxivEntries(entries) ==
    IF entries = <<>> THEN Ok(<<>>)
    ELSE LET first == ArxivEntry(Head(entries))
         IN  IF first.exc # NoExc THEN first
             ELSE LET rest == ArxivEntries(Tail(entries))
                  IN  IF rest.exc # NoExc THEN rest
                      ELSE Ok(<<first.value>> \o rest.value)

\* lines 59-98: the try block
ArxivTry(resp) ==
    IF resp.kind # "feed" THEN Raise(resp.kind) ELSE ArxivEntries(resp.entries)

\* lines 58, 98-102: return papers, or the except clause, r being the try block's outcome
ArxivExcept(r) ==
    IF r.exc = NoExc THEN [value |-> r.value, diag |-> <<>>, exc |-> NoExc]
    ELSE IF ExceptException(r.exc)
         THEN [value |-> <<>>, diag |-> <<"arXiv search error">>, exc |-> NoExc]
         ELSE [value |-> <<>>, diag |-> <<>>, exc |-> r.exc]

\* search_arxiv: what it returns, prints to stderr and lets escape
search_arxiv(resp) == ArxivExcept(ArxivTry(resp))

\* line 132: [a.get('name', '') for a in paper.get('authors', [])[:3]]
SSAuthors(paper) ==
    LET raw == Get(paper, "authors", Some(<<>>))
    IN  IF IsNone(raw) THEN Raise("TypeError")
        ELSE LET firsts == Take(Val(raw), SSAuthorLimit)
             IN  Ok([i \in 1..Len(firsts) |-> Get(firsts[i], "name", Some(<<>>))])

\* the abstract without the cut
SSAbstractUncut(paper) ==
    IF IsNone(Get(paper, "abstract", None)) THEN <<>> ELSE Val(Get(paper, "abstract", None))

\* line 137: (paper.get('abstract') or '')[:500]
SSAbstract(paper) ==
    LET raw == Get(paper, "abstract", None)
    IN  Take(IF IsNone(raw) THEN <<>> ELSE Val(raw), SSAbstractLimit)

\* lines 132-143: the body of the loop over the response's records
SSRecord(paper) ==
    LET authors == SSAuthors(paper)
        oa == Get(paper, "openAccessPdf", Some(EmptyDict))
    IN  IF authors.exc # NoExc THEN authors
        ELSE IF IsNone(oa) THEN Raise("AttributeError")
        ELSE Ok([title |-> Get(paper, "title", Some(<<>>)),
                 authors |-> authors.value,
                 abstract |-> SSAbstract(paper),
                 year |-> Get(paper, "year", None),
                 citations |-> Get(paper, "citationCount", 0),
                 url |-> Get(paper, "url", <<>>),
                 pdf |-> Get(Val(oa), "url", <<>>),
                 source |-> "Semantic Scholar"])

\* lines 130-145: the loop; an exception in one record leaves the loop
RECURSIVE SSRecords(_)
SSRecords(records) ==
    IF records = <<>> THEN Ok(<<>>)
    ELSE LET first == SSRecord(Head(records))
         IN  IF first.exc # NoExc THEN first
             ELSE LET rest == SSRecords(Tail(records))
                  IN  IF rest.exc # NoExc THEN rest
                      ELSE Ok(<<first.value>> \o rest.value)

\* lines 126-145: the try block
SSTry(resp) ==
    IF resp.kind # "json" THEN Raise(resp.kind)
    ELSE IF resp.shape # "dict" THEN Raise("AttributeError")
    ELSE LET data == Get(resp.body, "data", Some(<<>>))
         IN  IF IsNone(data) THEN Raise("TypeError") ELSE SSRecords(Val(data))

\* lines 125, 145-149: return papers, or the except clause, r being the try block's outcome
SSExcept(r) ==
    IF r.exc = NoExc THEN [value |-> r.value, diag |-> <<>>, exc |-> NoExc]
    ELSE IF ExceptException(r.exc)
         THEN [value |-> <<>>, diag |-> <<"Semantic Scholar search error">>, exc |-> NoExc]
         ELSE [value |-> <<>>, diag |-> <<>>, exc |-> r.exc]

\* search_semantic_scholar: what it returns, prints to stderr and lets escape
search_semantic_scholar(resp) == SSExcept(SSTry(resp))

\* lines 187-195: the try block of search_perplexity
PerplexityTry(resp) ==
    IF resp.kind # "json" THEN Raise(resp.kind)
    ELSE IF resp.shape # "dict" THEN Raise("AttributeError")
    ELSE LET choices == Get(resp.body, "choices", <<EmptyDict>>)
         IN  IF choices = <<>> THEN Raise("IndexError")
             ELSE Ok([summary |-> Get(Get(choices[1], "message", EmptyDict), "content", <<>>),
                      source |-> "Perplexity Sonar Pro"])

\* lines 177, 192-199: return the dict, or the except clause, r being the try
\* block's outcome
PerplexityExcept(r) ==
    IF r.exc = NoExc
    THEN [value |-> r.value, diag |-> <<>>, requested |-> TRUE, exc |-> NoExc]
    ELSE IF ExceptException(r.exc)
         THEN [value |-> EmptyDict, diag |-> <<"Perplexity search error">>,
               requested |-> TRUE, exc |-> NoExc]
         ELSE [value |-> EmptyDict, diag |-> <<>>, requested |-> TRUE, exc |-> r.exc]

\* search_perplexity: what it returns, requests, prints to stderr and lets escape;
\* lines 158-160: without the key nothing is requested
search_perplexity(key_set, resp) ==
    IF ~key_set
    THEN [value |-> EmptyDict, diag |-> <<"OPENROUTER_API_KEY not set">>,
          requested |-> FALSE, exc |-> NoExc]
    ELSE PerplexityExcept(PerplexityTry(resp))

----------------------------------------------------------------------------
(* search_papers.py: BibTeX generation *)

YearLen == 4

\* line 212: paper.get('authors', ['Unknown'])[0].split()[-1]
BibFirstAuthor(paper) ==
    LET authors == Get(paper, "authors", <<Some(<<"U", "n", "k", "n", "o", "w", "n">>)>>)
    IN  IF authors = <<>> THEN Raise("IndexError")
        ELSE IF IsNone(authors[1]) THEN Raise("AttributeError")
        ELSE IF Split(Val(authors[1])) = <<>> THEN Raise("IndexError")
        ELSE Ok(Last(Split(Val(authors[1]))))

\* line 213: paper.get('year') or paper.get('date', '')[:4] or '2024', as {year} prints it
BibYear(paper) ==
    LET year == Get(paper, "year", None)
        date4 == Take(Get(paper, "date", <<>>), YearLen)
    IN  IF ~IsNone(year) /\ Val(year) # 0 THEN IntStr(Val(year))
        ELSE IF date4 # <<>> THEN date4
        ELSE <<"2", "0", "2", "4">>

\* line 214: paper.get('title', 'paper').split()[0].lower()
BibTitleWord(paper) ==
    LET title == Get(paper, "title", Some(<<"p", "a", "p", "e", "r">>))
    IN  IF IsNone(title) THEN Raise("AttributeError")
        ELSE IF Split(Val(title)) = <<>> THEN Raise("IndexError")
        ELSE Ok(Lower(Head(Split(Val(title)))))

\* the key with the author's name as written
BibKeyCaseKept(first_author, year, title_word) == first_author \o year \o title_word

\* line 215: f"{first_author.lower()}{year}{title_word}"
BibKey(first_author, year, title_word) == Lower(first_author) \o year \o title_word

\* line 217: " and ".join(paper.get('authors', ['Unknown']))
BibAuthorsStr(paper) ==
    LET authors == Get(paper, "authors", <<Some(<<"U", "n", "k", "n", "o", "w", "n">>)>>)
    IN  IF \E i \in 1..Len(authors) : IsNone(authors[i]) THEN Raise("TypeError")
        ELSE Ok(Join([i \in 1..Len(authors) |-> Val(authors[i])], <<" and ">>))

\* lines 211-226: the body of the loop over the papers
BibEntry(paper) ==
    LET first_author == BibFirstAuthor(paper)
        title_word == BibTitleWord(paper)
        authors_str == BibAuthorsStr(paper)
    IN  IF first_author.exc # NoExc THEN first_author
        ELSE IF title_word.exc # NoExc THEN title_word
        ELSE IF authors_str.exc # NoExc THEN authors_str
        ELSE Ok([type |-> "article",
                 key |-> BibKey(first_author.value, BibYear(paper), title_word.value),
                 title |-> Val(Get(paper, "title", Some(<<"Unknown Title">>))),
                 author |-> authors_str.value,
                 year |-> BibYear(paper),
                 url |-> Get(paper, "url", <<>>),
                 note |-> Get(paper, "source", "Unknown")])

\* lines 208-226: the loop; an exception in one paper leaves generate_bibtex
RECURSIVE BibEntries(_)
BibEntries(papers) ==
    IF papers = <<>> THEN Ok(<<>>)
    ELSE LET first == BibEntry(Head(papers))
         IN  IF first.exc # NoExc THEN first
             ELSE LET rest == BibEntries(Tail(papers))
                  IN  IF rest.exc # NoExc THEN rest
                      ELSE Ok(<<first.value>> \o rest.value)

\* the "\n\n" between two entries
BlankLine == [type |-> "blank line"]

\* the join with an entry left out when its key was used before
BibJoinUniqueKeys(entries) ==
    Join([i \in 1..Len(entries) |->
            IF \E j \in 1..(i - 1) : entries[j].key = entries[i].key
            THEN <<>> ELSE <<entries[i]>>],
         <<>>)

\* line 228: "\n\n".join(entries), each entry one element of the text
BibJoin(entries) == Join([i \in 1..Len(entries) |-> <<entries[i]>>], <<BlankLine>>)

\* generate_bibtex: the text, or the exception that leaves it
generate_bibtex(papers) ==
    LET entries == BibEntries(papers)
    IN  IF entries.exc # NoExc THEN entries ELSE Ok(BibJoin(entries.value))

----------------------------------------------------------------------------
(* theory_explorer.py *)

RelatedLimit == 10
RelatedAuthors == 2

\* A format string as str.format parses it: literal text and replacement fields
\* ("{{" and "}}" are literal braces and belong to the literal text).
Lit(text) == [kind |-> "lit", name |-> "", text |-> <<text>>]
Field(name) == [kind |-> "field", name |-> name, text |-> <<>>]

\* lines 32-63
THEORY_ANALYSIS_PROMPT ==
    << Lit("You are a theoretical machine learning researcher. ... Research Problem: "),
       Field("problem"),
       Lit(" ... 3. **Convergence Analysis** ... - Rate: How fast? (parametric n^"),
       Field("-1/2"),
       Lit(" or nonparametric n^"),
       Field("-s/(2s+d)"),
       Lit(") ... Be precise with mathematical notation. Use LaTeX formatting.") >>

\* lines 74-132
TexTemplate ==
    << Lit("%% Theoretical Analysis - Auto-generated ... %% Generated: "),
       Field("date"),
       Lit(" ... \\documentclass[11pt]{article} ... \\title{\\textbf{Theoretical Analysis}\\\\[0.5em] \\large "),
       Field("problem"),
       Lit("} ... \\begin{abstract} ... for the research problem: \\emph{"),
       Field("problem"),
       Lit("}. ... \\end{abstract} ... %% AI-Generated Analysis "),
       Field("analysis"),
       Lit(" \\section{Related Work} ... \\begin{enumerate} "),
       Field("paper_list"),
       Lit(" \\end{enumerate} \\bibliographystyle{plain} \\bibliography{related_papers} \\end{document}") >>

\* str.format(**kwargs): KeyError for a field that names no keyword argument
Format(template, kwargs) ==
    IF \E i \in 1..Len(template) :
            template[i].kind = "field" /\ template[i].name \notin DOMAIN kwargs
    THEN Raise("KeyError")
    ELSE Ok([i \in 1..Len(template) |->
                IF template[i].kind = "field"
                THEN [kind |-> "value", name |-> template[i].name,
                      text |-> kwargs[template[i].name]]
                ELSE template[i]])

\* line 137: .replace('_', r'\_').replace('&', r'\&')
EscapeTitle(text) == Replace(Replace(text, "_", <<"\\", "_">>), "&", <<"\\", "&">>)

\* line 145: problem.replace('_', r'\_')
EscapeProblem(text) == Replace(text, "_", <<"\\", "_">>)

\* lines 137-140: one \item of the Related Work list
TexItem(p) ==
    LET title == Get(p, "title", Some(<<"U", "n", "k", "n", "o", "w", "n">>))
        authors == Take(Get(p, "authors", <<Some(<<"U", "n", "k", "n", "o", "w", "n">>)>>),
                        RelatedAuthors)
    IN  IF IsNone(title) THEN Raise("AttributeError")
        ELSE IF \E i \in 1..Len(authors) : IsNone(authors[i]) THEN Raise("TypeError")
        ELSE Ok([title |-> EscapeTitle(Val(title)),
                 authors |-> Join([i \in 1..Len(authors) |-> Val(authors[i])], <<",", " ">>),
                 url |-> Get(p, "url", <<>>)])

\* lines 135-140: paper_list, one element per \item line
RECURSIVE TexItems(_)
TexItems(papers) ==
    IF papers = <<>> THEN Ok(<<>>)
    ELSE LET first == TexItem(Head(papers))
         IN  IF first.exc # NoExc THEN first
             ELSE LET rest == TexItems(Tail(papers))
                  IN  IF rest.exc # NoExc THEN rest
                      ELSE Ok(<<first.value>> \o rest.value)

\* lines 150-162: what is written once paper_list, content and the BibTeX are known
TexWrite(paper_list, content, bibtex) ==
    IF paper_list.exc # NoExc THEN [tex |-> None, bib |-> None, exc |-> paper_list.exc]
    ELSE IF content.exc # NoExc THEN [tex |-> None, bib |-> None, exc |-> content.exc]
    ELSE IF bibtex.exc # NoExc
         THEN [tex |-> Some(content.value), bib |-> None, exc |-> bibtex.exc]
         ELSE [tex |-> Some(content.value), bib |-> Some(bibtex.value), exc |-> NoExc]

\* lines 143-148: template.format(...)
TexContent(problem, analysis, paper_list) ==
    Format(TexTemplate,
           [date |-> <<"%Y-%m-%d">>,
            problem |-> EscapeProblem(problem),
            analysis |-> analysis,
            paper_list |-> paper_list.value])

\* generate_theory_tex: the two files as written (None: not written) and the
\* exception that leaves it
generate_theory_tex(problem, analysis, papers) ==
    TexWrite(TexItems(Take(papers, RelatedLimit)),
             TexContent(problem, analysis, TexItems(Take(papers, RelatedLimit))),
             generate_bibtex(papers))

\* lines 169-201
compute_fisher_info_template == <<"\\section{Fisher Information and CRLB}">>

\* lines 248-262: the placeholder analysis
PlaceholderAnalysis ==
    <<"\\section{Problem Formulation}", "\\section{Identifiability}",
      "\\section{Convergence Analysis}">> \o compute_fisher_info_template

\* lines 244-262: the analysis text, the placeholder when there is no summary
Analysis(result) ==
    IF Get(result, "summary", <<>>) = <<>> THEN PlaceholderAnalysis
    ELSE Get(result, "summary", <<>>)

\* lines 239-272: the run once the prompt is formatted and search_perplexity returned px
TheoryRender(problem, papers, prompt, px) ==
    IF prompt.exc # NoExc
    THEN [exc |-> prompt.exc, requested |-> FALSE, diag |-> <<>>,
          result |-> EmptyDict, tex |-> None, bib |-> None]
    ELSE IF px.exc # NoExc
    THEN [exc |-> px.exc, requested |-> px.requested, diag |-> px.diag,
          result |-> EmptyDict, tex |-> None, bib |-> None]
    ELSE [requested |-> px.requested, diag |-> px.diag, result |-> px.value]
         @@ generate_theory_tex(problem, Analysis(px.value), papers)

\* lines 237-272 of main: everything after the search, with the OpenRouter
\* answer resp should it be asked
TheoryAnalyse(problem, papers, key_set, resp) ==
    TheoryRender(problem, papers,
                 Format(THEORY_ANALYSIS_PROMPT, [problem |-> problem]),
                 search_perplexity(key_set, resp))

----------------------------------------------------------------------------
(* What the endpoints may answer *)

MaxFeed == 2

SeqsUpTo(S, n) == UNION {[1..k -> S] : k \in 0..n}

\* an answer lists no entry twice
DistinctSeqsUpTo(S, n) ==
    {s \in SeqsUpTo(S, n) : \A i \in 1..Len(s) : \A j \in 1..Len(s) : i # j => s[i] # s[j]}

\* entry.find(tag) of an element holding text
Elem(text) == Some(Some(text))
\* entry.find(tag) of an empty element: its .text is None
EmptyElem == Some(None)
\* entry.find(tag) of an absent element
NoElem == None

LongText == [i \in 1..(ArxivAbstractLimit + 1) |-> "x"]

ArxivId1 == <<"h", "t", "t", "p", ":", "/", "/", "a", "/", "a", "b", "s", "/", "2", "3", "0", "1">>
ArxivId2 == <<"h", "t", "t", "p", ":", "/", "/", "a", "/", "a", "b", "s", "/", "2", "4", "0", "2">>
Published1 == <<"2", "0", "2", "3", "-", "0", "1", "-", "1", "5", "T", "0", "0">>
Published2 == <<"2", "0", "2", "2", "-", "1", "1", "-", "3", "0", "T", "0", "0">>

EntryGood ==
    [title |-> Elem(<<"S", "p", "a", "r", "s", "e", " ", "L", "a", "s", "s", "o">>),
     summary |-> Elem(<<" ", "a", "b", "\n">>),
     authors |-> <<[name |-> Elem(<<"A", "n", "n", " ", "L", "e", "e">>)]>>,
     id |-> Elem(ArxivId1),
     categories |-> <<Some("stat.ML")>>,
     published |-> Elem(Published1)]

EntryBig ==
    [title |-> Elem(<<" ", "a", "_", "b", " ", "&", "\n", "c", " ">>),
     summary |-> Elem(LongText),
     authors |-> <<[name |-> Elem(<<"A", "n", "n", " ", "L", "e", "e">>)],
                   [name |-> Elem(<<"S", "a", "m", " ", "K", "i", "m">>)],
                   [name |-> Elem(<<"T", "e", "d">>)],
                   [name |-> Elem(<<"A", "l">>)]>>,
     id |-> Elem(ArxivId2),
     categories |-> <<Some("math.ST"), Some("stat.TH"), Some("stat.ML"), Some("cs.LG")>>,
     published |-> Elem(Published2)]

\* <title>  </title>, no author
EntryBlankTitle ==
    [title |-> Elem(<<" ", " ">>),
     summary |-> Elem(<<"c">>),
     authors |-> <<>>,
     id |-> Elem(ArxivId1),
     categories |-> <<>>,
     published |-> Elem(Published1)]

\* no <title> element
EntryNoTitle ==
    [title |-> NoElem,
     summary |-> Elem(<<"d">>),
     authors |-> <<[name |-> Elem(<<"T", "e", "d">>)]>>,
     id |-> Elem(ArxivId2),
     categories |-> <<Some("cs.LG")>>,
     published |-> Elem(Published2)]

\* <name/> and a category without term
EntryEmptyName ==
    [title |-> Elem(<<"L", "a", "s", "s", "o">>),
     summary |-> Elem(<<"e">>),
     authors |-> <<[name |-> EmptyElem]>>,
     id |-> Elem(ArxivId2),
     categories |-> <<None>>,
     published |-> Elem(<<"2", "0", "2", "4">>)]

ArxivEntrySamples == {EntryGood, EntryBig, EntryBlankTitle, EntryNoTitle, EntryEmptyName}

ArxivFailures ==
    {[kind |-> k, entries |-> <<>>] : k \in {"URLError", "timeout", "ParseError"}}

ArxivResponses ==
    ArxivFailures \cup {[kind |-> "feed", entries |-> es] : es \in DistinctSeqsUpTo(ArxivEntrySamples, MaxFeed)}

RecGood ==
    [title |-> Some(<<"L", "a", "s", "s", "o", " ", "T", "h", "e", "o", "r", "y">>),
     authors |-> Some(<<[name |-> Some(<<"S", "a", "m", " ", "K", "i", "m">>)]>>),
     abstract |-> Some(<<"f">>),
     year |-> Some(2021),
     citationCount |-> 7,
     url |-> <<"https://www.semanticscholar.org/paper/1">>,
     openAccessPdf |-> Some([url |-> <<"https://example.org/1.pdf">>])]

\* the same paper as EntryGood
RecBig ==
    [title |-> Some(<<"S", "p", "a", "r", "s", "e", " ", "L", "a", "s", "s", "o">>),
     authors |-> Some(<<[name |-> Some(<<"A", "n", "n", " ", "L", "e", "e">>)],
                        [name |-> Some(<<"S", "a", "m", " ", "K", "i", "m">>)],
                        [name |-> Some(<<"T", "e", "d">>)],
                        [name |-> Some(<<"A", "l">>)]>>),
     abstract |-> Some(LongText),
     year |-> Some(2023),
     url |-> <<"https://www.semanticscholar.org/paper/2">>,
     openAccessPdf |-> Some([status |-> "GREEN"])]

\* a record with no title, no authors, no openAccessPdf; null abstract and year
RecNoTitle ==
    [abstract |-> None,
     year |-> None,
     url |-> <<"https://www.semanticscholar.org/paper/3">>]

\* "title": null, an author without name
RecNullTitle ==
    [title |-> None,
     authors |-> Some(<<[authorId |-> "9"]>>),
     abstract |-> Some(<<"g">>),
     year |-> Some(2022),
     url |-> <<"https://www.semanticscholar.org/paper/4">>,
     openAccessPdf |-> Some([url |-> <<"https://example.org/4.pdf">>])]

\* "openAccessPdf": null
RecNullPdf ==
    [title |-> Some(<<"K", "e", "r", "n", "e", "l", "s">>),
     authors |-> Some(<<[name |-> Some(<<"A", "l">>)]>>),
     abstract |-> Some(<<"h">>),
     year |-> Some(2020),
     url |-> <<"https://www.semanticscholar.org/paper/5">>,
     openAccessPdf |-> None]

SSRecordSamples == {RecGood, RecBig, RecNoTitle, RecNullTitle, RecNullPdf}

SSFailures ==
    {[kind |-> k, shape |-> "", body |-> EmptyDict] :
        k \in {"URLError", "timeout", "JSONDecodeError"}}

\* a JSON answer: a list, a dict without "data", "data": null, or a list of records
SSResponses ==
    SSFailures
    \cup {[kind |-> "json", shape |-> "list", body |-> EmptyDict],
          [kind |-> "json", shape |-> "dict", body |-> EmptyDict],
          [kind |-> "json", shape |-> "dict", body |-> [data |-> None]]}
    \cup {[kind |-> "json", shape |-> "dict", body |-> [data |-> Some(rs)]] :
            rs \in DistinctSeqsUpTo(SSRecordSamples, MaxFeed)}

PxFailures ==
    {[kind |-> k, shape |-> "", body |-> EmptyDict] :
        k \in {"URLError", "timeout", "JSONDecodeError"}}

\* a JSON answer: a list, a dict without "choices", "choices": [], a message
\* without content, an empty content, a content
PxResponses ==
    PxFailures
    \cup {[kind |-> "json", shape |-> "list", body |-> EmptyDict],
          [kind |-> "json", shape |-> "dict", body |-> EmptyDict],
          [kind |-> "json", shape |-> "dict", body |-> [choices |-> <<>>]],
          [kind |-> "json", shape |-> "dict", body |-> [choices |-> <<[message |-> EmptyDict]>>]],
          [kind |-> "json", shape |-> "dict",
           body |-> [choices |-> <<[message |-> [content |-> <<>>]]>>]],
          [kind |-> "json", shape |-> "dict",
           body |-> [choices |-> <<[message |-> [content |-> <<"AI analysis">>]]>>]]}

NoResp == [kind |-> "none"]

----------------------------------------------------------------------------
(* search_papers.py: main *)

\* the aggregation with a paper left out when its title is already listed
ExtendUnique(list, papers) ==
    list \o SelectSeq(papers, LAMBDA p : \A i \in 1..Len(list) : list[i].title # p.title)

\* lines 254, 260: all_papers.extend(papers)
Extend(list, papers) == list \o papers

\* the state before any entry point has run
Fresh ==
    /\ arxiv_resp = NoResp
    /\ ss_resp = NoResp
    /\ px_resp = NoResp
    /\ arxiv_papers = <<>>
    /\ ss_papers = <<>>
    /\ all_papers = <<>>
    /\ perplexity_result = EmptyDict
    /\ requests = <<>>
    /\ stderr = <<>>
    /\ raised = NoExc
    /\ tex_file = None
    /\ bib_file = None

\* python search_papers.py QUERY [--output FILE] [--json]
Init ==
    /\ prog = "search_papers"
    /\ pc = "arxiv"
    /\ api_key \in BOOLEAN
    /\ args \in {[output |-> o, json |-> j] : o \in BOOLEAN, j \in BOOLEAN}
    /\ Fresh

\* lines 249-255
MainSearchArxiv ==
    /\ prog = "search_papers"
    /\ pc = "arxiv"
    /\ \E resp \in ArxivResponses :
         \E r \in {search_arxiv(resp)} :
             /\ arxiv_resp' = resp
             /\ requests' = Append(requests, "arxiv")
             /\ stderr' = stderr \o r.diag
             /\ raised' = r.exc
             /\ IF r.exc # NoExc
                THEN pc' = "aborted_search" /\ UNCHANGED <<arxiv_papers, all_papers>>
                ELSE /\ pc' = "semantic_scholar"
                     /\ arxiv_papers' = r.value
                     /\ all_papers' = Extend(all_papers, r.value)
    /\ UNCHANGED <<prog, api_key, args, ss_resp, px_resp, ss_papers, perplexity_result,
                   tex_file, bib_file>>

\* lines 257-261
MainSearchSemanticScholar ==
    /\ prog = "search_papers"
    /\ pc = "semantic_scholar"
    /\ \E resp \in SSResponses :
         \E r \in {search_semantic_scholar(resp)} :
             /\ ss_resp' = resp
             /\ requests' = Append(requests, "semantic_scholar")
             /\ stderr' = stderr \o r.diag
             /\ raised' = r.exc
             /\ IF r.exc # NoExc
                THEN pc' = "aborted_search" /\ UNCHANGED <<ss_papers, all_papers>>
                ELSE /\ pc' = "perplexity"
                     /\ ss_papers' = r.value
                     /\ all_papers' = Extend(all_papers, r.value)
    /\ UNCHANGED <<prog, api_key, args, arxiv_resp, px_resp, arxiv_papers,
                   perplexity_result, tex_file, bib_file>>

\* lines 263-265
MainSearchPerplexity ==
    /\ prog = "search_papers"
    /\ pc = "perplexity"
    /\ \E resp \in (IF api_key THEN PxResponses ELSE {NoResp}) :
         \E r \in {search_perplexity(api_key, resp)} :
             /\ px_resp' = resp
             /\ requests' = IF r.requested THEN Append(requests, "openrouter") ELSE requests
             /\ stderr' = stderr \o r.diag
             /\ raised' = r.exc
             /\ IF r.exc # NoExc
                THEN pc' = "aborted_search" /\ UNCHANGED perplexity_result
                ELSE pc' = "output" /\ perplexity_result' = r.value
    /\ UNCHANGED <<prog, api_key, args, arxiv_resp, ss_resp, arxiv_papers, ss_papers,
                   all_papers, tex_file, bib_file>>

ListingLimit == 10

\* lines 282-286: the listing of the first papers; ', '.join(authors) needs names
PrintPapers(papers) ==
    IF \E i \in 1..Min(ListingLimit, Len(papers)) :
           \E k \in 1..Len(Get(papers[i], "authors", <<>>)) : IsNone(papers[i].authors[k])
    THEN Raise("TypeError")
    ELSE Ok(Min(ListingLimit, Len(papers)))

\* lines 272-293: the JSON dump, or the listing and the summary
PrintOutput(json, papers) == IF json THEN Ok(Len(papers)) ELSE PrintPapers(papers)

\* lines 267-300: the output, then the BibTeX file when --output is given
MainOutput ==
    /\ prog = "search_papers"
    /\ pc = "output"
    /\ \E shown \in {PrintOutput(args.json, all_papers)} :
         IF shown.exc # NoExc
         THEN pc' = "aborted_output" /\ raised' = shown.exc /\ UNCHANGED bib_file
         ELSE IF args.output
         THEN \E bibtex \in {generate_bibtex(all_papers)} :
                  IF bibtex.exc # NoExc
                  THEN pc' = "aborted_output" /\ raised' = bibtex.exc /\ UNCHANGED bib_file
                  ELSE pc' = "done" /\ bib_file' = Some(bibtex.value) /\ UNCHANGED raised
         ELSE pc' = "done" /\ UNCHANGED <<raised, bib_file>>
    /\ UNCHANGED <<prog, api_key, args, arxiv_resp, ss_resp, px_resp, arxiv_papers,
                   ss_papers, all_papers, perplexity_result, requests, stderr, tex_file>>

Next ==
    \/ MainSearchArxiv
    \/ MainSearchSemanticScholar
    \/ MainSearchPerplexity
    \/ MainOutput

Spec == Init /\ [][Next]_vars

----------------------------------------------------------------------------
(* generate_bibtex called on its own *)

MaxBibPapers == 3

\* the records the adapters build from the sample answers
ArxivPaperSamples ==
    {ArxivEntry(e).value : e \in {x \in ArxivEntrySamples : ArxivEntry(x).exc = NoExc}}

SSPaperSamples ==
    {SSRecord(r).value : r \in {x \in SSRecordSamples : SSRecord(x).exc = NoExc}}

\* a year and a date: the year wins
PaperYearAndDate ==
    [title |-> Some(<<"K", "e", "r", "n", "e", "l", "s">>),
     authors |-> <<Some(<<"A", "l">>)>>,
     year |-> Some(2021),
     date |-> <<"2", "0", "1", "9", "-", "0", "5">>,
     url |-> <<"https://example.org/a">>,
     source |-> "manual"]

\* first author, year and first title word of RecGood's record, the rest differs
PaperSameTriple ==
    [title |-> Some(<<"L", "a", "s", "s", "o", "\t", "a", "&", "b">>),
     authors |-> <<Some(<<"S", "a", "m", " ", "K", "i", "m">>), Some(<<"T", "e", "d">>)>>,
     date |-> <<"2", "0", "2", "1", "-", "0", "5">>,
     url |-> <<"https://example.org/b">>,
     source |-> "manual"]

\* neither year nor date
PaperNoYear ==
    [title |-> Some(<<"T", "h", "e", " ", "L", "a", "s", "s", "o">>),
     authors |-> <<Some(<<" ", "A", "n", "n", " ", " ", "L", "e", "e", " ">>)>>,
     url |-> <<"https://example.org/c">>,
     source |-> "manual"]

\* "year": null and an empty date
PaperNullYear ==
    [title |-> Some(<<"O", "n", " ", "R", "a", "t", "e", "s">>),
     authors |-> <<Some(<<"T", "e", "d">>)>>,
     year |-> None,
     date |-> <<>>,
     url |-> <<"https://example.org/e">>,
     source |-> "manual"]

\* no key at all but the url
PaperBare == [url |-> <<"https://example.org/d">>]

BibPaperSamples ==
    ArxivPaperSamples \cup SSPaperSamples
    \cup {PaperYearAndDate, PaperSameTriple, PaperNoYear, PaperNullYear, PaperBare}

InitBib ==
    /\ prog = "generate_bibtex"
    /\ pc = "call"
    /\ api_key = FALSE
    /\ args \in {[papers |-> ps] : ps \in SeqsUpTo(BibPaperSamples, MaxBibPapers)}
    /\ Fresh

\* bibtex = generate_bibtex(papers)
CallGenerateBibtex ==
    /\ prog = "generate_bibtex"
    /\ pc = "call"
    /\ \E r \in {generate_bibtex(args.papers)} :
           IF r.exc # NoExc
           THEN pc' = "raised" /\ raised' = r.exc /\ UNCHANGED bib_file
           ELSE pc' = "returned" /\ bib_file' = Some(r.value) /\ UNCHANGED raised
    /\ UNCHANGED <<prog, api_key, args, arxiv_resp, ss_resp, px_resp, arxiv_papers,
                   ss_papers, all_papers, perplexity_result, requests, stderr, tex_file>>

NextBib == CallGenerateBibtex

SpecBib == InitBib /\ [][NextBib]_vars

----------------------------------------------------------------------------
(* generate_theory_tex called on its own *)

MaxProblemLen == 2
MaxTexPapers == 11

ProblemSamples ==
    SeqsUpTo({"a", "_", "&"}, MaxProblemLen) \cup {<<"a", "_", "b", " ", "&", " ", "c">>}

AnalysisSamples == {PlaceholderAnalysis, <<"AI analysis">>}

TexPaperSamples ==
    {ArxivEntry(EntryGood).value, ArxivEntry(EntryBig).value,
     SSRecord(RecGood).value, SSRecord(RecNullTitle).value}

\* p, q, p, q, ... of length n
Alternate(n, p, q) == [i \in 1..n |-> IF i % 2 = 1 THEN p ELSE q]

TexPaperLists ==
    {Alternate(n, p, q) : n \in 0..MaxTexPapers, p \in TexPaperSamples, q \in TexPaperSamples}

InitTex ==
    /\ prog = "generate_theory_tex"
    /\ pc = "call"
    /\ api_key = FALSE
    /\ args \in {[problem |-> pr, analysis |-> an, papers |-> ps] :
                    pr \in ProblemSamples, an \in AnalysisSamples, ps \in TexPaperLists}
    /\ Fresh

\* tex_path = generate_theory_tex(problem, analysis, papers, output_dir)
CallGenerateTheoryTex ==
    /\ prog = "generate_theory_tex"
    /\ pc = "call"
    /\ \E r \in {generate_theory_tex(args.problem, args.analysis, args.papers)} :
           /\ pc' = IF r.exc # NoExc THEN "raised" ELSE "returned"
           /\ raised' = r.exc
           /\ tex_file' = r.tex
           /\ bib_file' = r.bib
    /\ UNCHANGED <<prog, api_key, args, arxiv_resp, ss_resp, px_resp, arxiv_papers,
                   ss_papers, all_papers, perplexity_result, requests, stderr>>

NextTex == CallGenerateTheoryTex

SpecTex == InitTex /\ [][NextTex]_vars

----------------------------------------------------------------------------
(* theory_explorer.py: main *)

\* python theory_explorer.py PROBLEM [--search-only]
InitTheory ==
    /\ prog = "theory_explorer"
    /\ pc = "search"
    /\ api_key \in BOOLEAN
    /\ args \in {[problem |-> pr, search_only |-> so] :
                    pr \in ProblemSamples, so \in BOOLEAN}
    /\ Fresh

\* lines 224-230
TheorySearch ==
    /\ prog = "theory_explorer"
    /\ pc = "search"
    /\ \E resp \in ArxivResponses :
         \E r \in {search_arxiv(resp)} :
             /\ arxiv_resp' = resp
             /\ requests' = Append(requests, "arxiv")
             /\ stderr' = stderr \o r.diag
             /\ raised' = r.exc
             /\ IF r.exc # NoExc
                THEN pc' = "aborted_search" /\ UNCHANGED arxiv_papers
                ELSE /\ pc' = IF args.search_only THEN "search_only" ELSE "analysis"
                     /\ arxiv_papers' = r.value
    /\ UNCHANGED <<prog, api_key, args, ss_resp, px_resp, ss_papers, all_papers,
                   perplexity_result, tex_file, bib_file>>

\* lines 232-235: the listing, then return
TheorySearchOnly ==
    /\ prog = "theory_explorer"
    /\ pc = "search_only"
    /\ pc' = "done"
    /\ UNCHANGED <<prog, api_key, args, arxiv_resp, ss_resp, px_resp, arxiv_papers,
                   ss_papers, all_papers, perplexity_result, requests, stderr, raised,
                   tex_file, bib_file>>

\* lines 237-277
TheoryGenerate ==
    /\ prog = "theory_explorer"
    /\ pc = "analysis"
    /\ \E resp \in (IF api_key THEN PxResponses ELSE {NoResp}) :
         \E r \in {TheoryAnalyse(args.problem, arxiv_papers, api_key, resp)} :
             /\ px_resp' = IF r.requested THEN resp ELSE NoResp
             /\ requests' = IF r.requested THEN Append(requests, "openrouter") ELSE requests
             /\ stderr' = stderr \o r.diag
             /\ perplexity_result' = r.result
             /\ raised' = r.exc
             /\ tex_file' = r.tex
             /\ bib_file' = r.bib
             /\ pc' = IF r.exc # NoExc THEN "aborted_analysis" ELSE "done"
    /\ UNCHANGED <<prog, api_key, args, arxiv_resp, ss_resp, arxiv_papers, ss_papers,
                   all_papers>>

NextTheory ==
    \/ TheorySearch
    \/ TheorySearchOnly
    \/ TheoryGenerate

SpecTheory == InitTheory /\ [][NextTheory]_vars

----------------------------------------------------------------------------
(* What the claims speak of *)

InSeq(x, seq) == \E i \in 1..Len(seq) : seq[i] = x

\* the template-safe form of a text: \_ for every _, \& for every &
TemplateSafeChar(c) == IF c \in {"_", "&"} THEN <<"\\", c>> ELSE <<c>>

RECURSIVE TemplateSafe(_)
TemplateSafe(text) ==
    IF text = <<>> THEN <<>> ELSE TemplateSafeChar(Head(text)) \o TemplateSafe(Tail(text))

\* the values a written document holds for a template field
TexValues(tex, field) ==
    {tex[i].text : i \in {j \in 1..Len(tex) : tex[j].kind = "value" /\ tex[j].name = field}}

\* the \item lines of a written document
TexRelatedWork(tex) == CHOOSE items \in TexValues(tex, "paper_list") : TRUE

\* the entries of a BibTeX text, the blank lines between them left out
BibEntriesOf(text) == SelectSeq(text, LAMBDA e : e.type = "article")

TheoryRunEnded == prog = "theory_explorer" /\ pc \in {"done", "aborted_search", "aborted_analysis"}

\* an arXiv element that is present and holds text
HasText(found) == ~IsNone(found) /\ ~IsNone(Val(found))

\* an arXiv entry with every field the adapter reads
ArxivWellFormed(e) ==
    /\ HasText(e.title) /\ HasText(e.summary) /\ HasText(e.id) /\ HasText(e.published)
    /\ \A i \in 1..Len(e.authors) : ~IsNone(e.authors[i].name)

\* a Semantic Scholar record whose authors and openAccessPdf, if given, are not null
SSWellFormed(rec) ==
    /\ "authors" \in DOMAIN rec => ~IsNone(rec.authors)
    /\ "openAccessPdf" \in DOMAIN rec => ~IsNone(rec.openAccessPdf)

TransportOrParseFailure(resp) ==
    resp.kind \in {"URLError", "timeout", "ParseError", "JSONDecodeError"}

\* an arXiv answer the adapter cannot read: no answer, no XML, or a malformed entry
ArxivUnreadable(resp) ==
    \/ TransportOrParseFailure(resp)
    \/ resp.kind = "feed" /\ \E i \in 1..Len(resp.entries) : ~ArxivWellFormed(resp.entries[i])

\* a Semantic Scholar answer that is JSON but no dict with a "data" key
SSLacksData(resp) == resp.kind = "json" /\ resp.shape = "dict" /\ "data" \notin DOMAIN resp.body

\* a Semantic Scholar answer the adapter cannot read: no answer, no JSON, no dict,
\* "data": null, or a malformed record
SSUnreadable(resp) ==
    \/ TransportOrParseFailure(resp)
    \/ resp.kind = "json" /\ resp.shape # "dict"
    \/ /\ resp.kind = "json" /\ resp.shape = "dict" /\ "data" \in DOMAIN resp.body
       /\ \/ IsNone(resp.body.data)
          \/ \E i \in 1..Len(Val(resp.body.data)) : ~SSWellFormed(Val(resp.body.data)[i])

\* an OpenRouter answer that is a dict without choices[0].message.content
PxLacksContent(resp) ==
    /\ resp.kind = "json" /\ resp.shape = "dict"
    /\ \/ "choices" \notin DOMAIN resp.body
       \/ /\ resp.body.choices # <<>>
          /\ \/ "message" \notin DOMAIN resp.body.choices[1]
             \/ "content" \notin DOMAIN resp.body.choices[1].message

\* an OpenRouter answer the adapter cannot read: no answer, no JSON, no dict, no choice
PxUnreadable(resp) ==
    \/ TransportOrParseFailure(resp)
    \/ resp.kind = "json" /\ resp.shape # "dict"
    \/ /\ resp.kind = "json" /\ resp.shape = "dict" /\ "choices" \in DOMAIN resp.body
       /\ resp.body.choices = <<>>

ArxivCalled == arxiv_resp.kind # "none"
SSCalled == ss_resp.kind # "none"
PxCalled == px_resp.kind # "none" \/ InSeq("OPENROUTER_API_KEY not set", stderr)

\* no adapter let an exception out, and after each adapter the run is at the next step
SearchGoesOn ==
    /\ pc # "aborted_search"
    /\ (ArxivCalled /\ ~SSCalled) => pc = "semantic_scholar"
    /\ (SSCalled /\ ~PxCalled) => pc = "perplexity"
    /\ PxCalled => pc \in {"output", "done", "aborted_output"}

\* s[i..j] is a whitespace-delimited token of s
IsToken(s, i, j) ==
    /\ 1 <= i /\ i <= j /\ j <= Len(s)
    /\ \A k \in i..j : s[k] \notin WS
    /\ i = 1 \/ s[i - 1] \in WS
    /\ j = Len(s) \/ s[j + 1] \in WS

\* the first and the last whitespace-delimited token of a text that has one
FirstToken(s) ==
    LET i == CHOOSE i \in 1..Len(s) : s[i] \notin WS /\ \A k \in 1..(i - 1) : s[k] \in WS
        j == CHOOSE j \in i..Len(s) : IsToken(s, i, j)
    IN  SubSeq(s, i, j)

LastToken(s) ==
    LET j == CHOOSE j \in 1..Len(s) : s[j] \notin WS /\ \A k \in (j + 1)..Len(s) : s[k] \in WS
        i == CHOOSE i \in 1..j : IsToken(s, i, j)
    IN  SubSeq(s, i, j)

\* a year as its four digits
FourDigits(n) ==
    <<DigitChar(n \div 1000), DigitChar((n \div 100) % 10),
      DigitChar((n \div 10) % 10), DigitChar(n % 10)>>

\* Y: the year if present, else the first 4 characters of the date, else 2024
YearOrDate(p) ==
    IF "year" \in DOMAIN p /\ ~IsNone(p.year) THEN FourDigits(Val(p.year))
    ELSE IF "date" \in DOMAIN p /\ p.date # <<>> THEN SubSeq(p.date, 1, Min(4, Len(p.date)))
    ELSE <<"2", "0", "2", "4">>

HasAuthorAndTitle(p) == "authors" \in DOMAIN p /\ "title" \in DOMAIN p

\* two papers with the same (first author, year-or-date, first title word)
SameTriple(p, q) ==
    /\ HasAuthorAndTitle(p) /\ HasAuthorAndTitle(q)
    /\ p.authors[1] = q.authors[1]
    /\ YearOrDate(p) = YearOrDate(q)
    /\ FirstToken(Val(p.title)) = FirstToken(Val(q.title))

BibReturned == prog = "generate_bibtex" /\ pc = "returned"

----------------------------------------------------------------------------
(* The claims *)

\* C1: every underscore and ampersand of the problem statement and of the title
\* of each of the first 10 papers is written in its escaped form, in the title
\* block, in the abstract and in the Related Work list.
C1_SpecialCharactersEscaped ==
    (prog = "generate_theory_tex" /\ ~IsNone(tex_file)) =>
        /\ TexValues(Val(tex_file), "problem") = {TemplateSafe(args.problem)}
        /\ \A i \in 1..Min(10, Len(args.papers)) :
              TexRelatedWork(Val(tex_file))[i].title = TemplateSafe(Val(args.papers[i].title))

\* C4: a run that is not search-only and has no OPENROUTER_API_KEY asks the AI
\* endpoint nothing, is not aborted and writes the document with the placeholder
\* sections Problem Formulation, Identifiability and Convergence Analysis.
C4_NoKeyRunWritesPlaceholder ==
    (TheoryRunEnded /\ ~args.search_only /\ ~api_key) =>
        /\ ~InSeq("openrouter", requests)
        /\ pc = "done"
        /\ raised = NoExc
        /\ ~IsNone(tex_file)
        /\ \A analysis \in TexValues(Val(tex_file), "analysis") :
              /\ InSeq("\\section{Problem Formulation}", analysis)
              /\ InSeq("\\section{Identifiability}", analysis)
              /\ InSeq("\\section{Convergence Analysis}", analysis)

\* C6: the document-generation run renders the sequence arXiv-then-Semantic-Scholar:
\* with N1 arXiv entries and N2 Semantic Scholar entries the Related Work list has
\* min(10, N1+N2) items, the first papers of that sequence, and related_papers.bib
\* has N1+N2 entries.
C6_DocumentRendersAllSources ==
    (TheoryRunEnded /\ ~args.search_only) =>
        /\ requests \in {<<"arxiv", "semantic_scholar">>,
                         <<"arxiv", "semantic_scholar", "openrouter">>}
        /\ ~IsNone(tex_file)
        /\ ~IsNone(bib_file)
        /\ Len(TexRelatedWork(Val(tex_file))) = Min(10, Len(arxiv_papers) + Len(ss_papers))
        /\ Len(BibEntriesOf(Val(bib_file))) = Len(arxiv_papers) + Len(ss_papers)

\* C2 as stated: no adapter raises to its caller; for any transport failure,
\* timeout, unparsable answer or answer of unexpected shape it prints a
\* diagnostic and returns an empty result, and the run goes on to the next source.
C2_FailureGivesDiagnosticAndEmpty ==
    prog = "search_papers" =>
        /\ SearchGoesOn
        /\ (ArxivCalled /\ ArxivUnreadable(arxiv_resp)) =>
              arxiv_papers = <<>> /\ InSeq("arXiv search error", stderr)
        /\ (SSCalled /\ (SSUnreadable(ss_resp) \/ SSLacksData(ss_resp))) =>
              ss_papers = <<>> /\ InSeq("Semantic Scholar search error", stderr)
        /\ (px_resp.kind # "none" /\ (PxUnreadable(px_resp) \/ PxLacksContent(px_resp))) =>
              DOMAIN perplexity_result = {} /\ InSeq("Perplexity search error", stderr)

\* What the adapters do guarantee: none raises to its caller; a transport
\* failure, a timeout, an unparsable answer or an answer on which the parsing
\* raises gives a diagnostic and an empty result, and the run goes on.  An
\* answer that only lacks the expected keys passes silently: Semantic Scholar
\* gives an empty list and the AI-summary adapter a record with an empty summary.
AdaptersNeverRaise ==
    prog = "search_papers" =>
        /\ SearchGoesOn
        /\ (ArxivCalled /\ ArxivUnreadable(arxiv_resp)) =>
              arxiv_papers = <<>> /\ InSeq("arXiv search error", stderr)
        /\ (SSCalled /\ SSUnreadable(ss_resp)) =>
              ss_papers = <<>> /\ InSeq("Semantic Scholar search error", stderr)
        /\ (px_resp.kind # "none" /\ PxUnreadable(px_resp)) =>
              DOMAIN perplexity_result = {} /\ InSeq("Perplexity search error", stderr)
        /\ (SSCalled /\ SSLacksData(ss_resp)) =>
              ss_papers = <<>> /\ ~InSeq("Semantic Scholar search error", stderr)
        /\ (px_resp.kind # "none" /\ PxLacksContent(px_resp)) =>
              /\ DOMAIN perplexity_result = {"summary", "source"}
              /\ perplexity_result.summary = <<>>
              /\ ~InSeq("Perplexity search error", stderr)

\* all three sources failed, each said so, and the run reached its end
AllSourcesFailed ==
    /\ prog = "search_papers" /\ pc = "done"
    /\ arxiv_resp.kind = "timeout"
    /\ ss_resp.kind = "JSONDecodeError"
    /\ px_resp.kind = "json" /\ px_resp.shape = "list"
    /\ stderr = <<"arXiv search error", "Semantic Scholar search error",
                  "Perplexity search error">>
    /\ all_papers = <<>>

\* C3: one malformed entry of an otherwise well-formed arXiv feed (or one
\* malformed record of a Semantic Scholar answer) costs only that entry: every
\* well-formed entry of the same answer is returned, in its original order.
C3_PerRecordRecovery ==
    prog = "search_papers" =>
        /\ arxiv_resp.kind = "feed" =>
              arxiv_papers =
                  [i \in 1..Len(SelectSeq(arxiv_resp.entries, ArxivWellFormed)) |->
                      ArxivEntry(SelectSeq(arxiv_resp.entries, ArxivWellFormed)[i]).value]
        /\ (ss_resp.kind = "json" /\ ss_resp.shape = "dict" /\ "data" \in DOMAIN ss_resp.body
              /\ ~IsNone(ss_resp.body.data)) =>
              ss_papers =
                  [i \in 1..Len(SelectSeq(Val(ss_resp.body.data), SSWellFormed)) |->
                      SSRecord(SelectSeq(Val(ss_resp.body.data), SSWellFormed)[i]).value]

\* C5: the aggregated sequence is the arXiv adapter's result followed by the
\* Semantic Scholar adapter's result: nothing dropped, merged, deduplicated or
\* reordered, and a failed source contributes nothing.
C5_AggregationIsConcatenation ==
    prog = "search_papers" =>
        /\ pc = "semantic_scholar" => all_papers = search_arxiv(arxiv_resp).value
        /\ pc \in {"perplexity", "output", "done", "aborted_output"} =>
              /\ all_papers = search_arxiv(arxiv_resp).value
                                \o search_semantic_scholar(ss_resp).value
              /\ Len(all_papers) = Len(arxiv_papers) + Len(ss_papers)
              /\ \A i \in 1..Len(arxiv_papers) : all_papers[i] = arxiv_papers[i]
              /\ \A i \in 1..Len(ss_papers) : all_papers[Len(arxiv_papers) + i] = ss_papers[i]
              /\ ArxivUnreadable(arxiv_resp) => all_papers = ss_papers
              /\ SSUnreadable(ss_resp) => all_papers = arxiv_papers

\* C5's case: both sources returned the same paper and the aggregate holds both
C5_SamePaperTwice ==
    /\ prog = "search_papers" /\ pc = "done"
    /\ \E i \in 1..Len(arxiv_papers) : \E j \in 1..Len(ss_papers) :
          /\ arxiv_papers[i].title = ss_papers[j].title
          /\ all_papers[i] = arxiv_papers[i]
          /\ all_papers[Len(arxiv_papers) + j] = ss_papers[j]

\* C7: every record an adapter returns has a non-empty source and a non-empty
\* title, a placeholder standing in for a title the answer omits or leaves
\* null or blank.
C7_TitleAndSourceNonEmpty ==
    prog = "search_papers" =>
        \A i \in 1..Len(all_papers) :
            /\ all_papers[i].source # ""
            /\ ~IsNone(all_papers[i].title)
            /\ Val(all_papers[i].title) # <<>>

\* C8: every record an adapter returns has an abstract of at most 500
\* characters, at most 3 authors, the first ones in the order of the answer,
\* and at most 3 categories.
C8_RecordsAreTruncated ==
    prog = "search_papers" =>
        /\ \A i \in 1..Len(all_papers) :
              /\ Len(all_papers[i].abstract) <= 500
              /\ Len(all_papers[i].authors) <= 3
              /\ Len(Get(all_papers[i], "categories", <<>>)) <= 3
        /\ \A i \in 1..Len(arxiv_papers) :
              /\ all_papers[i] = arxiv_papers[i]
              /\ Len(arxiv_papers[i].authors) = Min(3, Len(arxiv_resp.entries[i].authors))
              /\ \A k \in 1..Len(arxiv_papers[i].authors) :
                    arxiv_papers[i].authors[k] = Val(arxiv_resp.entries[i].authors[k].name)
        /\ \A i \in 1..Len(ss_papers) :
              /\ all_papers[Len(arxiv_papers) + i] = ss_papers[i]
              /\ Len(ss_papers[i].authors) =
                    Min(3, Len(Val(Get(Val(ss_resp.body.data)[i], "authors", Some(<<>>)))))
              /\ \A k \in 1..Len(ss_papers[i].authors) :
                    ss_papers[i].authors[k] =
                        Get(Val(Val(ss_resp.body.data)[i].authors)[k], "name", Some(<<>>))

\* C8's case: an entry and a record with more than 500 characters of abstract
\* and more than 3 authors were returned, cut
C8_LongRecordsReturned ==
    /\ prog = "search_papers" /\ pc = "done"
    /\ \E i \in 1..Len(arxiv_papers) :
          /\ arxiv_resp.entries[i] = EntryBig
          /\ Len(Val(Val(EntryBig.summary))) > 500
          /\ Len(EntryBig.authors) > 3
          /\ Len(EntryBig.categories) > 3
          /\ Len(all_papers[i].abstract) = 500
          /\ Len(all_papers[i].authors) = 3
          /\ Len(all_papers[i].categories) = 3
    /\ \E j \in 1..Len(ss_papers) :
          /\ Val(ss_resp.body.data)[j] = RecBig
          /\ Len(Val(RecBig.abstract)) > 500
          /\ Len(Val(RecBig.authors)) > 3
          /\ Len(all_papers[Len(arxiv_papers) + j].abstract) = 500
          /\ Len(all_papers[Len(arxiv_papers) + j].authors) = 3

\* C9: the citation key of each paper is lowercase(last token of the first
\* author's name) + Y + lowercase(first token of the title), Y being the year if
\* present, else the first 4 characters of the date, else 2024; the entry's year
\* field is the same Y; papers with the same (first author, year-or-date, first
\* title word) get the same key.
C9_CitationKey ==
    BibReturned =>
        /\ \A i \in 1..Len(args.papers) :
              /\ BibEntriesOf(Val(bib_file))[i].year = YearOrDate(args.papers[i])
              /\ HasAuthorAndTitle(args.papers[i]) =>
                    BibEntriesOf(Val(bib_file))[i].key =
                        Lower(LastToken(Val(args.papers[i].authors[1])))
                          \o YearOrDate(args.papers[i])
                          \o Lower(FirstToken(Val(args.papers[i].title)))
        /\ \A i \in 1..Len(args.papers) : \A j \in 1..Len(args.papers) :
              SameTriple(args.papers[i], args.papers[j]) =>
                  BibEntriesOf(Val(bib_file))[i].key = BibEntriesOf(Val(bib_file))[j].key

\* C9's case: a paper with neither year nor date got 2024 in key and year field,
\* next to two different papers with the same triple, one dated by its year and
\* one by its date
C9_FallbackYearAndSameTriple ==
    /\ BibReturned
    /\ \E i \in 1..Len(args.papers) :
          /\ args.papers[i] = PaperNoYear
          /\ BibEntriesOf(Val(bib_file))[i].year = <<"2", "0", "2", "4">>
          /\ BibEntriesOf(Val(bib_file))[i].key =
                <<"l", "e", "e", "2", "0", "2", "4", "t", "h", "e">>
    /\ \E i \in 1..Len(args.papers) : \E j \in 1..Len(args.papers) :
          /\ args.papers[i] = SSRecord(RecGood).value
          /\ args.papers[j] = PaperSameTriple
          /\ SameTriple(args.papers[i], args.papers[j])

\* C10: the BibTeX text holds exactly one entry per paper, in the order of the
\* papers, with a blank line between two entries; papers whose keys collide each
\* keep their entry, under the identical key.
C10_OneEntryPerPaper ==
    BibReturned =>
        /\ Len(Val(bib_file)) = IF args.papers = <<>> THEN 0 ELSE 2 * Len(args.papers) - 1
        /\ Len(BibEntriesOf(Val(bib_file))) = Len(args.papers)
        /\ \A i \in 1..Len(args.papers) :
              /\ Val(bib_file)[2 * i - 1].type = "article"
              /\ Val(bib_file)[2 * i - 1].url = args.papers[i].url
              /\ "title" \in DOMAIN args.papers[i] =>
                    Val(bib_file)[2 * i - 1].title = Val(args.papers[i].title)
              /\ "source" \in DOMAIN args.papers[i] =>
                    Val(bib_file)[2 * i - 1].note = args.papers[i].source
        /\ \A i \in 1..(Len(args.papers) - 1) : Val(bib_file)[2 * i] = BlankLine

\* C10's case: two different papers whose keys collide, both rendered
C10_CollidingKeysBothRendered ==
    /\ BibReturned
    /\ \E i \in 1..Len(args.papers) : \E j \in 1..Len(args.papers) :
          /\ i < j
          /\ args.papers[i] # args.papers[j]
          /\ BibEntriesOf(Val(bib_file))[i].key = BibEntriesOf(Val(bib_file))[j].key
          /\ BibEntriesOf(Val(bib_file))[i].url = args.papers[i].url
          /\ BibEntriesOf(Val(bib_file))[j].url = args.papers[j].url

\* C11: generate_bibtex returns bibliography text, without raising, for every
\* sequence of records search_arxiv and search_semantic_scholar can return (an
\* empty author list, an empty or null title, an empty author name and a null
\* year included), so a run asked for a BibTeX file that got past its output
\* step's printing ends with the file written.
C11_RenderingNeverFails ==
    (prog = "search_papers" /\ pc \in {"output", "done", "aborted_output"}) =>
        /\ generate_bibtex(all_papers).exc = NoExc
        /\ (pc # "output" /\ args.output /\ PrintOutput(args.json, all_papers).exc = NoExc) =>
              pc = "done" /\ ~IsNone(bib_file)

====
